---- MODULE Spec2Model ----
(***************************************************************************)
(* A model of pptx_server.py: the /generate handler that maps a JSON       *)
(* business profile onto a twelve-slide deck, together with its helpers    *)
(* pick_theme, hex_to_rgb, make_gradient_image, safe_text and              *)
(* make_premium_pie_chart.                                                 *)
(*                                                                         *)
(* Python strings are sequences of one-character strings, so that the      *)
(* substring test `k in key`, str.lower() and iteration over a string are  *)
(* computed rather than assumed.  JSON values are records [t, v] with a    *)
(* type tag t and a value v.  A float expression is modelled by its exact  *)
(* value where the floats compute it exactly, and otherwise by the values  *)
(* rounding can give (see GradientChannelValues).                          *)
(*                                                                         *)
(* Four specifications share the module:                                   *)
(*   Spec         the handler generate(), one request after another;       *)
(*   SpecTheme    pick_theme applied to bounded inputs;                    *)
(*   SpecGradient the painting loop of make_gradient_image;                *)
(*   SpecThreads  two threads inside make_premium_pie_chart, sharing       *)
(*                pyplot's figure registry.                                *)
(***************************************************************************)
EXTENDS Integers, Sequences, FiniteSets, TLC

VARIABLES
    \* ---- generate(): one request at a time -------------------------------
    pc,          \* position of the handler
    body,        \* the request body as received: [kind, json]
    payload,     \* what get_json returned
    theme,       \* [key, color_from, color_to]: the theme chosen, key "none" before
    prs,         \* [created, slides, saved]: the Presentation
    logo,        \* logo_img_bytes: [present, src, len, pos, fetched, raised]
    logoReads,   \* the lengths read from the logo buffer, one per placement
    calls,       \* the invocations of add_styled_slide so far
    charts,      \* what each chart-bearing slide ended up with
    response,    \* [status, kind, cause] of the response, status 0 while none
    tempFiles,   \* temporary files on disk
    \* ---- pick_theme -------------------------------------------------------
    themeIn,     \* [company, business]: the two arguments
    themeOut,    \* the pair returned, <<>> before the call
    \* ---- make_gradient_image ---------------------------------------------
    grad,        \* [from, to, size, vertical, i, lines]
    \* ---- make_premium_pie_chart under threads ------------------------------
    figs,        \* pyplot's registry: the open figures, the current one last
    nextFig,     \* the next figure number
    th           \* per thread: [pc, fig, n, saved]

vars == <<pc, body, payload, theme, prs, logo, logoReads, calls, charts,
          response, tempFiles, themeIn, themeOut, grad, figs, nextFig, th>>

genVars == <<pc, body, payload, theme, prs, logo, logoReads, calls, charts,
             response, tempFiles>>
themeVars == <<themeIn, themeOut>>
threadVars == <<figs, nextFig, th>>
notGenVars == <<themeIn, themeOut, grad, figs, nextFig, th>>

(***************************************************************************)
(* Bounds of the model.                                                    *)
(***************************************************************************)
MaxSteps == 4        \* image widths and heights: 1..MaxSteps
MaxFields == 1       \* fields present in a payload: 0..MaxFields
MaxDecks == 2        \* decks written before the model stops taking requests
LogoLen == 3         \* bytes in the logo buffer

(***************************************************************************)
(* Strings.                                                                *)
(***************************************************************************)
Upper == <<"A","B","C","D","E","F","G","H","I","J","K","L","M",
           "N","O","P","Q","R","S","T","U","V","W","X","Y","Z">>
Lower == <<"a","b","c","d","e","f","g","h","i","j","k","l","m",
           "n","o","p","q","r","s","t","u","v","w","x","y","z">>

\* str.lower() on one character
LowerChar(c) ==
    IF \E k \in 1..26 : Upper[k] = c
    THEN Lower[CHOOSE k \in 1..26 : Upper[k] = c]
    ELSE c

\* str.lower()
lower(s) == [k \in 1..Len(s) |-> LowerChar(s[k])]

\* `k in key` for strings: k occurs in key as a contiguous substring
Contains(k, key) ==
    \E off \in 0..(Len(key) - Len(k)) :
        \A j \in 1..Len(k) : key[off + j] = k[j]

\* any(k in key for k in ks)
AnyIn(ks, key) == \E j \in 1..Len(ks) : Contains(ks[j], key)

\* str.lstrip("#")
RECURSIVE lstrip(_)
lstrip(s) == IF Len(s) > 0 /\ s[1] = "#" THEN lstrip(Tail(s)) ELSE s

HexDigits == <<"0","1","2","3","4","5","6","7","8","9","A","B","C","D","E","F">>
HexVal(c) == (CHOOSE k \in 1..16 : HexDigits[k] = c) - 1

\* hex_to_rgb: int(hex_color[i:i+2], 16) for i in (0, 2, 4)
hex_to_rgb(hex_color) ==
    LET h == lstrip(hex_color)
    IN  <<16 * HexVal(h[1]) + HexVal(h[2]),
          16 * HexVal(h[3]) + HexVal(h[4]),
          16 * HexVal(h[5]) + HexVal(h[6])>>

(***************************************************************************)
(* Themes.                                                                 *)
(***************************************************************************)
THEME_MAP ==
    [tech      |-> << <<"#","1","F","4","E","7","9">>, <<"#","6","F","A","8","D","C">> >>,
     food      |-> << <<"#","2","E","7","D","3","2">>, <<"#","A","5","D","6","A","7">> >>,
     finance   |-> << <<"#","0","B","1","A","3","4">>, <<"#","6","B","8","E","A","3">> >>,
     education |-> << <<"#","6","A","1","B","9","A">>, <<"#","C","3","9","B","D","3">> >>,
     health    |-> << <<"#","E","F","6","C","0","0">>, <<"#","F","F","C","C","8","0">> >>,
     default   |-> << <<"#","3","E","3","E","3","E">>, <<"#","B","D","B","D","B","D">> >>]

\* the keyword lists of pick_theme, one per if-statement
TechWords == << <<"t","e","c","h">>, <<"a","i">>, <<"s","a","a","s">>,
                <<"s","o","f","t","w","a","r","e">> >>
FoodWords == << <<"f","o","o","d">>, <<"o","r","g","a","n","i","c">>,
                <<"a","g","r","i">>, <<"r","e","s","t","a","u","r","a","n","t">> >>
FinanceWords == << <<"f","i","n","a","n","c","e">>, <<"b","a","n","k">>,
                   <<"i","n","v","e","s","t">> >>
EducationWords == << <<"e","d","u","c","a","t","i","o","n">>,
                     <<"e","d","t","e","c","h">>, <<"s","c","h","o","o","l">> >>
HealthWords == << <<"h","e","a","l","t","h">>, <<"w","e","l","l","n","e","s","s">>,
                  <<"c","l","i","n","i","c">> >>

\* pick_theme, as the key of THEME_MAP it returns
ThemeKey(company_name, business_type) ==
    LET key == lower(company_name \o <<" ">> \o business_type)
    IN  IF AnyIn(TechWords, key) THEN "tech"
        ELSE IF AnyIn(FoodWords, key) THEN "food"
        ELSE IF AnyIn(FinanceWords, key) THEN "finance"
        ELSE IF AnyIn(EducationWords, key) THEN "education"
        ELSE IF AnyIn(HealthWords, key) THEN "health"
        ELSE "default"

pick_theme(company_name, business_type) ==
    THEME_MAP[ThemeKey(company_name, business_type)]

(***************************************************************************)
(* Gradients.                                                              *)
(***************************************************************************)
\* int(n / d) for d > 0: Python's int() truncates toward zero
Trunc(n, d) == IF n >= 0 THEN n \div d ELSE -((-n) \div d)

\* the loop body with ratio = i / steps: the last line never reaches color_to
GradientChannelOffByOne(cf, ct, steps, i) ==
    IF steps > 1 THEN Trunc(cf * steps + (ct - cf) * i, steps) ELSE cf

\* int(color_from[c] + (color_to[c] - color_from[c]) * ratio),
\* ratio = i / float(steps - 1) if steps > 1 else 0
GradientChannel(cf, ct, steps, i) ==
    IF steps > 1
    THEN Trunc(cf * (steps - 1) + (ct - cf) * i, steps - 1)
    ELSE cf

RECURSIVE GCD(_, _)
GCD(a, b) == IF b = 0 THEN a ELSE GCD(b, a % b)

RECURSIVE IsPowerOfTwo(_)
IsPowerOfTwo(n) == n = 1 \/ (n > 1 /\ n % 2 = 0 /\ IsPowerOfTwo(n \div 2))

\* whether the float i / float(steps - 1) is the exact quotient: it is when
\* the reduced denominator is a power of two
ExactRatio(steps, i) ==
    steps <= 1 \/ i = 0 \/ IsPowerOfTwo((steps - 1) \div GCD(i, steps - 1))

\* the values the float computation of a channel can give.  With an exact
\* ratio the product and the sum are exact too (8-bit operands).  With a
\* rounded ratio the result is within rounding error of the exact value:
\* int() gives the exact truncation, except that an exact value that is an
\* integer q may be reached from below and truncate to q - 1.
GradientChannelValues(cf, ct, steps, i) ==
    LET q == GradientChannel(cf, ct, steps, i)
    IN  IF \/ ExactRatio(steps, i)
           \/ ct = cf
           \/ ((ct - cf) * i) % (steps - 1) # 0
        THEN {q}
        ELSE {q - 1, q}

\* the colours (r, g, b) line i can be painted with
GradientColours(color_from, color_to, steps, i) ==
    {<<r, g, b>> : r \in GradientChannelValues(color_from[1], color_to[1], steps, i),
                   g \in GradientChannelValues(color_from[2], color_to[2], steps, i),
                   b \in GradientChannelValues(color_from[3], color_to[3], steps, i)}

(***************************************************************************)
(* JSON values and the Python operations generate() applies to them.       *)
(***************************************************************************)
Absent == [t |-> "absent", v |-> 0]          \* the key is not in the dict
JNull == [t |-> "null", v |-> 0]             \* None
JNum(n) == [t |-> "num", v |-> n]
JStr(s) == [t |-> "str", v |-> s]
JList(xs) == [t |-> "list", v |-> xs]
JDict(kvs) == [t |-> "dict", v |-> kvs]      \* a sequence of <<key, value>>

S_NA == <<"N","/","A">>
K_segment == <<"s","e","g","m","e","n","t">>
K_percent == <<"p","e","r","c","e","n","t">>
K_name == <<"n","a","m","e">>
K_phone == <<"p","h","o","n","e">>
K_email == <<"e","m","a","i","l">>
K_education == <<"e","d","u","c","a","t","i","o","n">>

\* bool(x)
Truthy(x) ==
    CASE x.t \in {"null", "absent"} -> FALSE
      [] x.t = "num" -> x.v # 0
      [] OTHER -> Len(x.v) > 0

\* a or b
Or(a, b) == IF Truthy(a) THEN a ELSE b

\* whether `for e in x` works
Iterable(x) == x.t \in {"str", "list", "dict"}

\* the elements `for e in x` yields
Items(x) ==
    CASE x.t = "str" -> [i \in 1..Len(x.v) |-> JStr(<<x.v[i]>>)]
      [] x.t = "dict" -> [i \in 1..Len(x.v) |-> JStr(x.v[i][1])]
      [] OTHER -> x.v

Digits == <<"0","1","2","3","4","5","6","7","8","9">>
IsDigit(c) == \E k \in 1..10 : Digits[k] = c
DigitVal(c) == (CHOOSE k \in 1..10 : Digits[k] = c) - 1

RECURSIVE DecimalValue(_)
DecimalValue(s) ==
    IF Len(s) = 0 THEN 0
    ELSE 10 * DecimalValue(SubSeq(s, 1, Len(s) - 1)) + DigitVal(s[Len(s)])

\* whether float(x) returns: a number, or a string of decimal digits
CanFloat(x) ==
    \/ x.t = "num"
    \/ x.t = "str" /\ Len(x.v) > 0 /\ \A i \in 1..Len(x.v) : IsDigit(x.v[i])

\* float(x)
Float(x) == IF x.t = "num" THEN x.v ELSE DecimalValue(x.v)

\* d.get(key, default) on a dict
DictGet(d, key, default) ==
    IF \E i \in 1..Len(d.v) : d.v[i][1] = key
    THEN d.v[CHOOSE i \in 1..Len(d.v) :
               d.v[i][1] = key /\ \A j \in 1..(i - 1) : d.v[j][1] # key][2]
    ELSE default

\* sum(values)
RECURSIVE Sum(_)
Sum(xs) == IF Len(xs) = 0 THEN 0 ELSE xs[1] + Sum(Tail(xs))

(***************************************************************************)
(* The payload: the fields generate() reads.                               *)
(***************************************************************************)
FlatFundFields ==
    <<"fund_deployment_testing", "fund_deployment_manpower",
      "fund_deployment_outsourced", "fund_deployment_ip_costs",
      "fund_deployment_travel", "fund_deployment_consumables",
      "fund_deployment_contingency", "fund_deployment_others">>

\* the keys of the dict built from the flat fund_deployment_* fields
FlatFundKeys ==
    << <<"t","e","s","t","i","n","g","_","m","a","n","u","f","a","c","t","u","r","i","n","g">>,
       <<"m","a","n","_","p","o","w","e","r">>,
       <<"o","u","t","s","o","u","r","c","e","d","_","s","e","r","v","i","c","e","s">>,
       <<"i","p","_","c","o","s","t","s">>,
       <<"t","r","a","v","e","l">>,
       <<"c","o","n","s","u","m","a","b","l","e","s">>,
       <<"c","o","n","t","i","n","g","e","n","c","y">>,
       <<"o","t","h","e","r","s">> >>

TextFields ==
    {"tagline", "short_description", "vision", "mission", "company_contact",
     "contact_details", "director_name", "director_phone", "director_email",
     "director_qualification"}
ListFields == {"consumer_problems", "solutions_provided", "products_services"}

Fields ==
    {"company_name", "nature_of_business", "logo_url", "market_share",
     "target_market", "usp", "directors", "fund_deployment"}
    \cup TextFields \cup ListFields
    \cup {FlatFundFields[i] : i \in 1..8}

\* payload.get(key, default)
Get(p, key, default) == IF p[key].t = "absent" THEN default ELSE p[key]

\* {}
EmptyPayload == [f \in Fields |-> Absent]

(***************************************************************************)
(* safe_text and the lines of a slide.  A line records how it was built    *)
(* and whether it is a str: python-pptx's text setters raise on anything   *)
(* else.                                                                   *)
(***************************************************************************)
Line(fmt, txt, arg, isStr) == [fmt |-> fmt, txt |-> txt, arg |-> arg, isStr |-> isStr]

\* a string literal of the source
Lit(txt) == Line("literal", txt, JNull, TRUE)

\* an f-string: always a str, whatever its arguments are
Fmt(txt, arg) == Line("fstring", txt, arg, TRUE)

\* a payload value used as a line as it is
Raw(x) == Line("value", "", x, x.t = "str")

\* safe_text(value): "" for None, the joined str() of a list's elements,
\* str(value) otherwise; always a str
safe_text(value) ==
    CASE value.t \in {"null", "absent"} -> Line("safe_text", "", JStr(<<>>), TRUE)
      [] value.t = "list" -> Line("safe_text", "joined", value, TRUE)
      [] OTHER -> Line("safe_text", "str", value, TRUE)

\* [f"* {x}" for x in xs]
Bullets(xs) == [i \in 1..Len(Items(xs)) |-> Fmt("bullet", Items(xs)[i])]

\* lines or [alt]
OrLines(lines, alt) == IF Len(lines) > 0 THEN lines ELSE <<alt>>

(***************************************************************************)
(* The content of the twelve slides: lines 245-313 of generate().  Each    *)
(* operator gives what is passed to add_styled_slide, or says that the     *)
(* mapping raised before the call (raise, with the cause).                 *)
(***************************************************************************)
NoChart == [present |-> FALSE, categories |-> <<>>, values |-> <<>>]

\* chart={"type": "pie", "categories": categories, "values": values}
PieChart(categories, values) ==
    [present |-> TRUE, categories |-> categories, values |-> values]

Content(name, title, body_lines, chart) ==
    [raise |-> FALSE, cause |-> "none", name |-> name, title |-> title,
     body_lines |-> body_lines, chart |-> chart]

Raised(name, cause) ==
    [raise |-> TRUE, cause |-> cause, name |-> name, title |-> Lit(""),
     body_lines |-> <<>>, chart |-> NoChart]

\* a list field turned into bullets, or the placeholder when it gives none
BulletSlide(p, name, field, title, placeholder) ==
    LET src == Get(p, field, JList(<<>>))
    IN  IF ~Iterable(src) THEN Raised(name, "payload")
        ELSE Content(name, Lit(title), OrLines(Bullets(src), Lit(placeholder)), NoChart)

HeroContent(p) ==
    Content("Hero", Raw(Get(p, "company_name", JStr(<<"C","o","m","p","a","n","y">>))),
            <<safe_text(Or(Get(p, "tagline", JNull), Get(p, "company_name", JNull))),
              safe_text(Get(p, "nature_of_business", JNull))>>,
            NoChart)

OverviewContent(p) ==
    Content("Overview", Lit("Nature of Business"),
            <<safe_text(Get(p, "nature_of_business", JStr(<<>>))),
              safe_text(Get(p, "short_description", JStr(<<>>)))>>,
            NoChart)

VisionMissionContent(p) ==
    Content("Vision & Mission", Lit("Vision & Mission"),
            <<Fmt("Vision: ", safe_text(Get(p, "vision", JStr(<<>>))).arg),
              Fmt("Mission: ", safe_text(Get(p, "mission", JStr(<<>>))).arg)>>,
            NoChart)

ProblemsContent(p) ==
    BulletSlide(p, "Problems", "consumer_problems", "Problems Faced by Consumers",
                "No specific problems provided.")

SolutionsContent(p) ==
    BulletSlide(p, "Solutions", "solutions_provided", "Solutions Provided",
                "No solutions provided.")

ProductsContent(p) ==
    BulletSlide(p, "Products & Services", "products_services", "Products & Services",
                "No products/services listed.")

\* market_items: a dict becomes a list of {segment, percent}; else market or []
MarketItems(p) ==
    LET market == Get(p, "market_share", JList(<<>>))
    IN  IF market.t = "dict"
        THEN JList([i \in 1..Len(market.v) |->
                      JDict(<< <<K_segment, JStr(market.v[i][1])>>,
                               <<K_percent, market.v[i][2]>> >>)])
        ELSE Or(market, JList(<<>>))

MarketShareContent(p) ==
    LET market_items == MarketItems(p)
        its == Items(market_items)
    IN  IF ~Truthy(market_items)
        THEN Content("Market Share", Lit("Market Share"),
                     <<Fmt("Total market coverage: %", JNum(100))>>,
                     PieChart(<<JStr(S_NA)>>, <<100>>))
        ELSE IF \/ ~Iterable(market_items)
                \/ \E i \in 1..Len(its) : its[i].t # "dict"
                \/ \E i \in 1..Len(its) : ~CanFloat(DictGet(its[i], K_percent, JNum(0)))
        THEN Raised("Market Share", "chart_spec")
        ELSE LET categories == [i \in 1..Len(its) |-> DictGet(its[i], K_segment, JStr(<<>>))]
                 values == [i \in 1..Len(its) |-> Float(DictGet(its[i], K_percent, JNum(0)))]
             IN  Content("Market Share", Lit("Market Share"),
                         <<Fmt("Total market coverage: %", JNum(Sum(values)))>>,
                         PieChart(categories, values))

\* [f"* {t}" for t in payload.get(field, [])] or [payload.get(field, "Not specified")]
TargetMarketContent(p) ==
    LET src == Get(p, "target_market", JList(<<>>))
    IN  IF ~Iterable(src) THEN Raised("Target Market", "payload")
        ELSE Content("Target Market", Lit("Target Market"),
                     OrLines(Bullets(src),
                             IF p["target_market"].t = "absent"
                             THEN Lit("Not specified") ELSE Raw(p["target_market"])),
                     NoChart)

\* [f"* {u}" for u in (payload.get("usp") or [])] or [payload.get("usp", "Not specified")]
UspContent(p) ==
    LET src == Or(Get(p, "usp", JNull), JList(<<>>))
    IN  IF ~Iterable(src) THEN Raised("USP", "payload")
        ELSE Content("USP", Lit("Unique Selling Proposition (USP)"),
                     OrLines(Bullets(src),
                             IF p["usp"].t = "absent"
                             THEN Lit("Not specified") ELSE Raw(p["usp"])),
                     NoChart)

ContactContent(p) ==
    Content("Contact", Lit("Contact Details"),
            <<safe_text(Get(p, "company_contact",
                            Get(p, "contact_details", JStr(S_NA))))>>,
            NoChart)

\* directors, or the one built from the flat director_* fields
Directors(p) ==
    LET directors == Get(p, "directors", JList(<<>>))
    IN  IF ~Truthy(directors) /\ Get(p, "director_name", JNull).t = "str"
        THEN JList(<<JDict(<< <<K_name, Get(p, "director_name", JNull)>>,
                              <<K_phone, Get(p, "director_phone", JNull)>>,
                              <<K_email, Get(p, "director_email", JNull)>>,
                              <<K_education, Get(p, "director_qualification", JNull)>> >>)>>)
        ELSE directors

DirectorsContent(p) ==
    LET directors == Directors(p)
        ds == Items(directors)
    IN  IF ~Iterable(directors) \/ \E i \in 1..Len(ds) : ds[i].t # "dict"
        THEN Raised("Directors", "payload")
        ELSE Content("Directors", Lit("Directors"),
                     OrLines([i \in 1..Len(ds) |-> Fmt("Name/Phone/Email/Education", ds[i])],
                             Lit("No director data provided.")),
                     NoChart)

\* whether the flat fund_deployment_* fields all convert with float()
FlatFundConverts(p) ==
    \A i \in 1..8 : CanFloat(Get(p, FlatFundFields[i], JNum(0)))

\* fund: payload["fund_deployment"], or the dict of the eight flat fields
Fund(p) ==
    LET fund == Get(p, "fund_deployment", JDict(<<>>))
    IN  IF ~Truthy(fund)
        THEN JDict([i \in 1..8 |->
                      <<FlatFundKeys[i], JNum(Float(Get(p, FlatFundFields[i], JNum(0))))>>])
        ELSE fund

FundDeploymentContent(p) ==
    IF ~Truthy(Get(p, "fund_deployment", JDict(<<>>))) /\ ~FlatFundConverts(p)
    THEN Raised("Fund Deployment", "chart_spec")
    ELSE LET fund == Fund(p)
         IN  IF ~Truthy(fund)
             THEN Content("Fund Deployment", Lit("Fund Deployment"),
                          <<Fmt("Total: %", JNum(100))>>,
                          PieChart(<<JStr(S_NA)>>, <<100>>))
             ELSE IF \/ fund.t # "dict"
                     \/ \E i \in 1..Len(fund.v) : ~CanFloat(fund.v[i][2])
             THEN Raised("Fund Deployment", "chart_spec")
             ELSE LET categories_fd == [i \in 1..Len(fund.v) |-> JStr(fund.v[i][1])]
                      values_fd == [i \in 1..Len(fund.v) |-> Float(fund.v[i][2])]
                  IN  Content("Fund Deployment", Lit("Fund Deployment"),
                              <<Fmt("Total: %", JNum(Sum(values_fd)))>>,
                              PieChart(categories_fd, values_fd))

\* the slide composed at position slide_index, in the order of the source
SlideContent(p, slide_index) ==
    CASE slide_index = 0 -> HeroContent(p)
      [] slide_index = 1 -> OverviewContent(p)
      [] slide_index = 2 -> VisionMissionContent(p)
      [] slide_index = 3 -> ProblemsContent(p)
      [] slide_index = 4 -> SolutionsContent(p)
      [] slide_index = 5 -> ProductsContent(p)
      [] slide_index = 6 -> MarketShareContent(p)
      [] slide_index = 7 -> TargetMarketContent(p)
      [] slide_index = 8 -> UspContent(p)
      [] slide_index = 9 -> ContactContent(p)
      [] slide_index = 10 -> DirectorsContent(p)
      [] slide_index = 11 -> FundDeploymentContent(p)

(***************************************************************************)
(* make_premium_pie_chart.                                                 *)
(***************************************************************************)
\* lines 103-105: empty categories or values become one slice "N/A" of 1
PieInput(categories, values) ==
    IF Len(categories) = 0 \/ Len(values) = 0
    THEN [categories |-> <<JStr(S_NA)>>, values |-> <<1>>]
    ELSE [categories |-> categories, values |-> values]

ChartRaised == [ok |-> FALSE, slices |-> <<>>]

\* the wedges ax.pie draws: each label with its share value / total
Wedges(in) ==
    [ok |-> TRUE,
     slices |-> [i \in 1..Len(in.values) |->
                   [label |-> in.categories[i], value |-> in.values[i],
                    total |-> Sum(in.values)]]]

\* what make_premium_pie_chart can return for an input.  ax.pie raises on
\* labels and values of different lengths and on a negative value; it
\* divides by the sum, so a zero sum gives NaN wedges, which the build
\* either draws or refuses when the figure is saved.
PieOutcomes(categories, values) ==
    LET in == PieInput(categories, values)
    IN  IF \/ Len(in.categories) # Len(in.values)
           \/ \E i \in 1..Len(in.values) : in.values[i] < 0
        THEN {ChartRaised}
        ELSE IF Sum(in.values) = 0
        THEN {ChartRaised, Wedges(in)}
        ELSE {Wedges(in)}

(***************************************************************************)
(* generate(): the handler, one step per block of the source.              *)
(***************************************************************************)
NoBody == [kind |-> "none", json |-> JNull]
NoTheme == [key |-> "none", color_from |-> <<>>, color_to |-> <<>>]
NoPrs == [created |-> FALSE, slides |-> 0, saved |-> FALSE]
NoLogo == [present |-> FALSE, src |-> "none", len |-> 0, pos |-> 0,
           fetched |-> FALSE, raised |-> FALSE]
NoResponse == [status |-> 0, kind |-> "none", cause |-> "none"]

\* the values a field takes in the payloads of the model
FieldValues(f) ==
    LET strs == JList(<<JStr(<<"f","a","s","t">>), JStr(<<"c","h","e","a","p">>)>>)
        word == JStr(<<"t","e","x","t">>)
    IN  CASE f = "company_name" ->
               {JStr(<<"A","c","m","e">>), JStr(<<"A","c","m","e"," ","A","I">>), JNum(5)}
          [] f = "nature_of_business" ->
               {JStr(<<"S","a","a","S"," ","p","l","a","t","f","o","r","m">>), JNull}
          [] f = "logo_url" -> {JStr(<<"h","t","t","p",":","/","/","x","/","l",".","p","n","g">>)}
          [] f \in TextFields -> {word}
          [] f \in ListFields -> {strs, JNull}
          [] f = "market_share" ->
               {JDict(<< <<<<"E","n","t">>, JNum(60)>>, <<<<"S","M","B">>, JNum(40)>> >>),
                JList(<<JDict(<< <<K_segment, JStr(<<"E","n","t">>)>>, <<K_percent, JNum(60)>> >>),
                        JDict(<< <<K_segment, JStr(<<"S","M","B">>)>>,
                                 <<K_percent, JStr(<<"4","0">>)>> >>)>>),
                JList(<<JDict(<< <<K_segment, JStr(<<"E","n","t">>)>>, <<K_percent, JNum(0)>> >>)>>),
                JList(<<JDict(<< <<K_segment, JStr(<<"E","n","t">>)>>,
                                 <<K_percent, JStr(<<"l","o","t","s">>)>> >>)>>),
                JList(<<JStr(<<"E","n","t">>)>>)}
          [] f = "target_market" -> {strs, word, JList(<<>>), JNum(5)}
          [] f = "usp" -> {strs, word, JList(<<>>), JNum(5), JNull}
          [] f = "directors" ->
               {JList(<<JDict(<< <<K_name, JStr(<<"A","n","n">>)>> >>)>>),
                JList(<<JStr(<<"A","n","n">>)>>)}
          [] f = "fund_deployment" ->
               {JDict(<< <<<<"l","a","b">>, JNum(70)>>, <<<<"o","p","s">>, JNum(30)>> >>),
                JDict(<< <<<<"l","a","b">>, JNum(0)>> >>),
                JDict(<< <<<<"l","a","b">>, JStr(<<"l","o","t","s">>)>> >>),
                JList(<<JNum(70)>>)}
          [] OTHER -> {JNum(25), JStr(<<"l","o","t","s">>)}

\* the JSON objects with at most n fields present
RECURSIVE PayloadsWith(_)
PayloadsWith(n) ==
    IF n = 0 THEN {EmptyPayload}
    ELSE LET fewer == PayloadsWith(n - 1)
         IN  fewer \cup UNION {UNION {{[q EXCEPT ![f] = x] : x \in FieldValues(f)}
                                      : f \in Fields} : q \in fewer}

\* the request bodies: none, not JSON, JSON null, a JSON array, a JSON object
Bodies ==
    {[kind |-> "missing", json |-> JNull], [kind |-> "unparsable", json |-> JNull],
     [kind |-> "json", json |-> JNull],
     [kind |-> "json", json |-> JList(<<JNum(1)>>)]}
    \cup {[kind |-> "json", json |-> [t |-> "object", v |-> q]] : q \in PayloadsWith(MaxFields)}

\* bool(payload) for what get_json returns
PayloadTruthy(j) ==
    IF j.t = "object" THEN \E f \in Fields : j.v[f].t # "absent" ELSE Truthy(j)

Reject(kind) ==
    [proceed |-> FALSE, payload |-> JNull,
     response |-> [status |-> 400, kind |-> kind, cause |-> "none"]]

\* payload = request.get_json(silent=True) or {}, and no rejection
ParseRequestLenient(b) ==
    [proceed |-> TRUE,
     payload |-> IF b.kind = "json" /\ PayloadTruthy(b.json)
                 THEN b.json ELSE [t |-> "object", v |-> EmptyPayload],
     response |-> NoResponse]

\* lines 136-138: get_json(force=True) raises BadRequest on a body that is
\* missing or not JSON; a falsy payload is answered with the error object
ParseRequest(b) ==
    IF b.kind # "json" THEN Reject("bad_request")
    ELSE IF ~PayloadTruthy(b.json) THEN Reject("error_json")
    ELSE [proceed |-> TRUE, payload |-> b.json, response |-> NoResponse]

\* the request arrives
Receive ==
    /\ pc = "idle"
    /\ tempFiles < MaxDecks
    /\ \E b \in Bodies : body' = b
    /\ pc' = "parse"
    /\ UNCHANGED <<payload, theme, prs, logo, logoReads, calls, charts, response, tempFiles>>
    /\ UNCHANGED notGenVars

Parse ==
    /\ pc = "parse"
    /\ LET r == ParseRequest(body)
       IN  /\ payload' = r.payload
           /\ response' = r.response
           /\ pc' = IF r.proceed THEN "theme" ELSE "done"
    /\ UNCHANGED <<body, theme, prs, logo, logoReads, calls, charts, tempFiles>>
    /\ UNCHANGED notGenVars

\* an exception leaves the handler: the framework answers 500
Crash(cause) ==
    /\ pc' = "done"
    /\ response' = [status |-> 500, kind |-> "exception", cause |-> cause]

\* lines 140-144
PickTheme ==
    /\ pc = "theme"
    /\ IF payload.t # "object"
       THEN Crash("payload_type") /\ UNCHANGED theme
       ELSE LET company == Get(payload.v, "company_name", JStr(<<"C","o","m","p","a","n","y">>))
                business_type == Get(payload.v, "nature_of_business", JStr(<<>>))
            IN  IF company.t # "str" \/ business_type.t # "str"
                THEN Crash("theme") /\ UNCHANGED theme
                ELSE /\ theme' = [key |-> ThemeKey(company.v, business_type.v),
                                   color_from |-> hex_to_rgb(pick_theme(company.v, business_type.v)[1]),
                                   color_to |-> hex_to_rgb(pick_theme(company.v, business_type.v)[2])]
                     /\ pc' = "logo"
                     /\ UNCHANGED response
    /\ UNCHANGED <<body, payload, prs, logo, logoReads, calls, charts, tempFiles>>
    /\ UNCHANGED notGenVars

\* lines 146-166: the Presentation, then the logo from logo_url or, failing
\* that, the first picture of the template when the template file exists
AcquireLogo ==
    /\ pc = "logo"
    /\ prs' = [prs EXCEPT !.created = TRUE]
    /\ \E fetchOk \in BOOLEAN, template \in {"absent", "picture", "nothing"} :
         LET wanted == Truthy(Get(payload.v, "logo_url", JNull))
             fromUrl == wanted /\ fetchOk
             fromTemplate == ~fromUrl /\ template = "picture"
         IN  logo' = [present |-> fromUrl \/ fromTemplate,
                      src |-> IF fromUrl THEN "url"
                              ELSE IF fromTemplate THEN "template" ELSE "none",
                      len |-> IF fromUrl \/ fromTemplate THEN LogoLen ELSE 0,
                      pos |-> 0, fetched |-> wanted, raised |-> FALSE]
    /\ pc' = "slides"
    /\ UNCHANGED <<body, payload, theme, logoReads, calls, charts, response, tempFiles>>
    /\ UNCHANGED notGenVars

\* lines 195-196 without the seek(0): read() returns what is left
LogoBytesReadNoSeek(lg) == lg.len - lg.pos

\* lines 195-196: seek(0), then read() returns the whole buffer
LogoBytesRead(lg) == lg.len

\* one block of lines 245-313: the content of the next slide, then
\* add_styled_slide (lines 169-243) on it.  The gradient background (lines
\* 171-176) is built from 8-bit colours and changes nothing that is modelled.
ComposeSlide ==
    /\ pc = "slides"
    /\ LET slide_index == Len(calls)
           c == SlideContent(payload.v, slide_index)
           badLine == \E i \in 1..Len(c.body_lines) : ~c.body_lines[i].isStr
       IN  IF c.raise
           THEN Crash(c.cause) /\ UNCHANGED <<prs, logo, logoReads, calls, charts>>
           ELSE /\ calls' = Append(calls,
                          [slide_index |-> slide_index, name |-> c.name, title |-> c.title,
                           body_lines |-> c.body_lines, chart |-> c.chart.present])
                /\ prs' = [prs EXCEPT !.slides = @ + 1]
                /\ IF logo.present
                   THEN /\ logoReads' = Append(logoReads, LogoBytesRead(logo))
                        /\ \E placed \in BOOLEAN :
                             logo' = [logo EXCEPT !.pos = IF placed THEN 0 ELSE logo.len,
                                                  !.raised = @ \/ ~placed]
                   ELSE UNCHANGED <<logo, logoReads>>
                /\ IF badLine
                   THEN Crash("body_text") /\ UNCHANGED charts
                   ELSE /\ IF c.chart.present
                           THEN \E out \in PieOutcomes(c.chart.categories, c.chart.values) :
                                  charts' = Append(charts,
                                      [slide_index |-> slide_index,
                                       categories |-> c.chart.categories,
                                       values |-> c.chart.values,
                                       ok |-> out.ok, slices |-> out.slices])
                           ELSE UNCHANGED charts
                        /\ pc' = IF slide_index = 11 THEN "save" ELSE "slides"
                        /\ UNCHANGED response
    /\ UNCHANGED <<body, payload, theme, tempFiles>>
    /\ UNCHANGED notGenVars

\* lines 316-320: NamedTemporaryFile(delete=False), prs.save, send_file
Save ==
    /\ pc = "save"
    /\ tempFiles' = tempFiles + 1
    /\ prs' = [prs EXCEPT !.saved = TRUE]
    /\ response' = [status |-> 200, kind |-> "file", cause |-> "none"]
    /\ pc' = "done"
    /\ UNCHANGED <<body, payload, theme, logo, logoReads, calls, charts>>
    /\ UNCHANGED notGenVars

\* the response is sent and the handler's locals are gone
Finish ==
    /\ pc = "done"
    /\ pc' = "idle"
    /\ body' = NoBody
    /\ payload' = JNull
    /\ theme' = NoTheme
    /\ prs' = NoPrs
    /\ logo' = NoLogo
    /\ logoReads' = <<>>
    /\ calls' = <<>>
    /\ charts' = <<>>
    /\ response' = NoResponse
    /\ UNCHANGED tempFiles
    /\ UNCHANGED notGenVars

(***************************************************************************)
(* pick_theme on its own: the arguments are words of ThemeInputs.          *)
(***************************************************************************)
Categories == <<"tech", "food", "finance", "education", "health">>

\* the keyword list of a category
Keywords(c) ==
    CASE c = "tech" -> TechWords
      [] c = "food" -> FoodWords
      [] c = "finance" -> FinanceWords
      [] c = "education" -> EducationWords
      [] c = "health" -> HealthWords

KeywordSet(c) == {Keywords(c)[i] : i \in 1..Len(Keywords(c))}

\* the argument strings tried: every keyword, the empty string, and words
\* without a keyword, with one in capitals and with one inside another word
ThemeInputs ==
    UNION {KeywordSet(Categories[i]) : i \in 1..5}
    \cup {<<>>, <<"A","c","m","e">>, <<"B","A","N","K">>, <<"r","e","t","a","i","l">>,
          <<"G","r","o","c","e","r","s">>}

ApplyPickTheme ==
    /\ themeOut = <<>>
    /\ themeOut' = pick_theme(themeIn.company, themeIn.business)
    /\ UNCHANGED <<themeIn, genVars, grad, figs, nextFig, th>>

(***************************************************************************)
(* make_gradient_image: the loop of lines 60-68, one painted line a step.  *)
(***************************************************************************)
ChannelValues == {0, 7, 255}
Colours == {<<r, g, b>> : r \in ChannelValues, g \in ChannelValues, b \in ChannelValues}

\* steps = h if vertical else w
Steps(g) == IF g.vertical THEN g.size[2] ELSE g.size[1]

PaintLine ==
    /\ grad.i < Steps(grad)
    /\ \E colour \in GradientColours(grad.from, grad.to, Steps(grad), grad.i) :
         grad' = [grad EXCEPT !.lines = Append(@, colour), !.i = @ + 1]
    /\ UNCHANGED <<genVars, themeIn, themeOut, figs, nextFig, th>>

(***************************************************************************)
(* make_premium_pie_chart run by two request threads.  plt.subplots        *)
(* registers the new figure with pyplot and makes it the current one;      *)
(* plt.savefig saves pyplot's current figure; plt.close(fig) removes fig.  *)
(* The registry is module state of matplotlib.pyplot, shared by all        *)
(* threads of the process.                                                 *)
(***************************************************************************)
Threads == {1, 2}
ChartsPerRequest == 2

\* the categories and values of the n-th chart of thread t's request
ThreadChart(t, n) ==
    IF t = 1
    THEN [categories |-> <<JStr(<<"E","n","t">>), JStr(<<"S","M","B">>)>>, values |-> <<60, 40>>]
    ELSE [categories |-> <<JStr(<<"l","a","b">>)>>, values |-> <<n>>]

\* line 106: fig, ax = plt.subplots(...)
Subplots(t) ==
    /\ th[t].pc = "subplots"
    /\ figs' = Append(figs, [id |-> nextFig, owner |-> t, n |-> th[t].n, slices |-> <<>>])
    /\ nextFig' = nextFig + 1
    /\ th' = [th EXCEPT ![t].fig = nextFig, ![t].pc = "pie"]
    /\ UNCHANGED <<genVars, themeIn, themeOut, grad>>

\* lines 110-126: ax.pie and the donut, drawn on the thread's own axes
Pie(t) ==
    /\ th[t].pc = "pie"
    /\ figs' = [i \in 1..Len(figs) |->
                  IF figs[i].id = th[t].fig
                  THEN [figs[i] EXCEPT !.slices =
                          Wedges(PieInput(ThreadChart(t, th[t].n).categories,
                                          ThreadChart(t, th[t].n).values)).slices]
                  ELSE figs[i]]
    /\ th' = [th EXCEPT ![t].pc = "savefig"]
    /\ UNCHANGED <<nextFig, genVars, themeIn, themeOut, grad>>

\* line 128: plt.savefig(buf, ...) saves the current figure, the last registered
SavedFigure(t) ==
    [owner |-> figs[Len(figs)].owner, n |-> figs[Len(figs)].n,
     slices |-> figs[Len(figs)].slices]

Savefig(t) ==
    /\ th[t].pc = "savefig"
    /\ th' = [th EXCEPT ![t].saved = Append(@, SavedFigure(t)), ![t].pc = "close"]
    /\ UNCHANGED <<figs, nextFig, genVars, themeIn, themeOut, grad>>

\* line 130: plt.close(fig), then the buffer is returned
Close(t) ==
    /\ th[t].pc = "close"
    /\ figs' = SelectSeq(figs, LAMBDA f : f.id # th[t].fig)
    /\ th' = [th EXCEPT ![t].fig = 0, ![t].n = @ + 1,
                        ![t].pc = IF th[t].n + 1 > ChartsPerRequest THEN "done" ELSE "subplots"]
    /\ UNCHANGED <<nextFig, genVars, themeIn, themeOut, grad>>

(***************************************************************************)
(* The specifications.                                                     *)
(***************************************************************************)
GenIdle ==
    /\ pc = "idle"
    /\ body = NoBody
    /\ payload = JNull
    /\ theme = NoTheme
    /\ prs = NoPrs
    /\ logo = NoLogo
    /\ logoReads = <<>>
    /\ calls = <<>>
    /\ charts = <<>>
    /\ response = NoResponse
    /\ tempFiles = 0

ThemeIdle == themeIn = [company |-> <<>>, business |-> <<>>] /\ themeOut = <<>>

GradIdle ==
    grad = [from |-> <<0, 0, 0>>, to |-> <<0, 0, 0>>, size |-> <<0, 0>>,
            vertical |-> TRUE, i |-> 0, lines |-> <<>>]

ThreadsIdle ==
    /\ figs = <<>>
    /\ nextFig = 1
    /\ th = [t \in Threads |-> [pc |-> "done", fig |-> 0, n |-> 1, saved |-> <<>>]]

Init == GenIdle /\ ThemeIdle /\ GradIdle /\ ThreadsIdle

Next ==
    \/ Receive
    \/ Parse
    \/ PickTheme
    \/ AcquireLogo
    \/ ComposeSlide
    \/ Save
    \/ Finish

Spec == Init /\ [][Next]_vars

InitTheme ==
    /\ GenIdle /\ GradIdle /\ ThreadsIdle
    /\ themeIn \in [company : ThemeInputs, business : ThemeInputs]
    /\ themeOut = <<>>

NextTheme == ApplyPickTheme

SpecTheme == InitTheme /\ [][NextTheme]_vars

InitGradient ==
    /\ GenIdle /\ ThemeIdle /\ ThreadsIdle
    /\ grad \in [from : Colours, to : Colours, size : (1..MaxSteps) \X (1..MaxSteps),
                 vertical : BOOLEAN, i : {0}, lines : {<<>>}]

NextGradient == PaintLine

SpecGradient == InitGradient /\ [][NextGradient]_vars

InitThreads ==
    /\ GenIdle /\ ThemeIdle /\ GradIdle
    /\ figs = <<>>
    /\ nextFig = 1
    /\ th = [t \in Threads |-> [pc |-> "subplots", fig |-> 0, n |-> 1, saved |-> <<>>]]

NextThreads ==
    \E t \in Threads :
        \/ Subplots(t)
        \/ Pie(t)
        \/ Savefig(t)
        \/ Close(t)

SpecThreads == InitThreads /\ [][NextThreads]_vars

(***************************************************************************)
(* The claims.                                                             *)
(***************************************************************************)
IsObjectBody == body.kind = "json" /\ body.json.t = "object"

\* C1: every request whose body is a JSON object, the empty object {}
\* included, ends with status 200 and a deck of exactly 12 slides.
C1_ObjectPayloadGivesTwelveSlides ==
    (pc = "done" /\ IsObjectBody) => (response.status = 200 /\ prs.slides = 12)

SlideOrder ==
    <<"Hero", "Overview", "Vision & Mission", "Problems", "Solutions",
      "Products & Services", "Market Share", "Target Market", "USP", "Contact",
      "Directors", "Fund Deployment">>

\* C2: a request that reached rendering (its Presentation was created) ends
\* with exactly 12 invocations of add_styled_slide, the k-th carrying
\* slide_index k in the fixed content order, with a chart on exactly the
\* invocations 6 and 11.
C2_TwelveInvocationsInOrder ==
    (pc = "done" /\ prs.created) =>
        /\ Len(calls) = 12
        /\ \A k \in 1..Len(calls) :
             /\ calls[k].slide_index = k - 1
             /\ calls[k].name = SlideOrder[k]
             /\ calls[k].chart = (k - 1 \in {6, 11})

\* the categories one of whose keywords occurs in the lowercased key
Matching ==
    LET key == lower(themeIn.company \o <<" ">> \o themeIn.business)
    IN  {i \in 1..5 : AnyIn(Keywords(Categories[i]), key)}

\* the non-empty arguments given to pick_theme
ArgWords == {themeIn.company, themeIn.business} \ {<<>>}

\* C3: arguments made only of one category's keywords give that category's
\* pair; a key holding no keyword gives the default pair; a key matching two
\* or more categories gives the pair of the earliest of them.
C3_ThemeFollowsKeywords ==
    themeOut # <<>> =>
        /\ \A i \in 1..5 :
             (ArgWords # {} /\ ArgWords \subseteq KeywordSet(Categories[i]))
                 => themeOut = THEME_MAP[Categories[i]]
        /\ Matching = {} => themeOut = THEME_MAP["default"]
        /\ Cardinality(Matching) >= 2 =>
             themeOut = THEME_MAP[Categories[CHOOSE i \in Matching :
                                               \A j \in Matching : i <= j]]

\* C4: a chart whose input is empty or whose values sum to zero is rendered,
\* without failing, as one slice labelled "N/A" that covers the whole pie.
C4_EmptyOrZeroChartIsNA ==
    \A k \in 1..Len(charts) :
        (Len(charts[k].values) = 0 \/ Sum(charts[k].values) = 0) =>
            /\ charts[k].ok
            /\ Len(charts[k].slices) = 1
            /\ charts[k].slices[1].label = JStr(S_NA)
            /\ charts[k].slices[1].total > 0
            /\ charts[k].slices[1].value = charts[k].slices[1].total

\* a field of some slide failed to render: a logo placement or a chart
\* render raised, or the request ended on a body line or on a chart
\* specification that could not be used
FieldFailed ==
    \/ logo.raised
    \/ \E k \in 1..Len(charts) : ~charts[k].ok
    \/ response.cause \in {"body_text", "chart_spec"}

\* C5: a request in which only fields of slides failed still ends with
\* status 200 and all 12 slides composed.
C5_FieldFailureNeverAborts ==
    (pc = "done" /\ FieldFailed /\ response.cause \in {"none", "body_text", "chart_spec"})
        => (response.status = 200 /\ prs.slides = 12 /\ Len(calls) = 12)

\* C6: once a body that is missing or not JSON has been parsed, the request
\* is over with a 4xx error response, and nothing was rendered: no theme, no
\* Presentation, no slide, no logo fetch, no temporary file.
C6_BadBodyRejectedBeforeRendering ==
    (body.kind \in {"missing", "unparsable"} /\ pc # "parse") =>
        /\ pc = "done"
        /\ response.status \in 400..499
        /\ response.kind \in {"bad_request", "error_json"}
        /\ theme = NoTheme
        /\ ~prs.created /\ prs.slides = 0 /\ ~prs.saved
        /\ calls = <<>> /\ charts = <<>>
        /\ ~logo.fetched /\ ~logo.present /\ logoReads = <<>>

\* C6 witness: an unparsable body has been answered with status 400
C6_Witness ==
    pc = "done" /\ body.kind = "unparsable" /\ response.status = 400

\* C7: between requests no temporary file is left on disk.
C7_NoTempFileLeftBehind == pc = "idle" => tempFiles = 0

\* C8: every chart a thread saved is the figure of its own request: drawn by
\* that thread, for that chart, from its own categories and values.
C8_ChartsAreTheRequestsOwn ==
    \A t \in Threads : \A k \in 1..Len(th[t].saved) :
        /\ th[t].saved[k].owner = t
        /\ th[t].saved[k].n = k
        /\ th[t].saved[k].slices =
             Wedges(PieInput(ThreadChart(t, k).categories, ThreadChart(t, k).values)).slices

\* C9: with a logo, every slide composed so far read the logo buffer once,
\* and each read returned all of its bytes.
C9_LogoReadIsComplete ==
    logo.present =>
        /\ logo.len = LogoLen
        /\ Len(logoReads) = prs.slides
        /\ \A k \in 1..Len(logoReads) : logoReads[k] = logo.len

\* C9 witness: all 12 placements were read, some placement before the last
\* raised, and the last one succeeded
C9_Witness ==
    logo.present /\ Len(logoReads) = 12 /\ logo.raised /\ logo.pos = 0

Between(x, a, b) == (a <= x /\ x <= b) \/ (b <= x /\ x <= a)

\* C10: each channel of each painted line lies between the channels of
\* color_from and color_to and moves monotonically from the one to the
\* other; the first line is color_from and, when there are two lines or
\* more, the last is color_to.
C10_GradientBoundedMonotone ==
    LET n == Len(grad.lines)
    IN  \A c \in 1..3 :
          /\ \A k \in 1..n : Between(grad.lines[k][c], grad.from[c], grad.to[c])
          /\ \A k \in 1..(n - 1) :
               IF grad.from[c] <= grad.to[c]
               THEN grad.lines[k][c] <= grad.lines[k + 1][c]
               ELSE grad.lines[k][c] >= grad.lines[k + 1][c]
          /\ n >= 1 => grad.lines[1][c] = grad.from[c]
          /\ (n = Steps(grad) /\ n > 1) => grad.lines[n][c] = grad.to[c]

\* C10 witness: a finished gradient of three lines or more with a rising and
\* a falling channel, whose second line is strictly inside the rising one
C10_Witness ==
    /\ grad.i = Steps(grad) /\ Steps(grad) >= 3
    /\ grad.from[1] < grad.to[1] /\ grad.from[2] > grad.to[2]
    /\ grad.from[1] < grad.lines[2][1] /\ grad.lines[2][1] < grad.to[1]

====
